---- MODULE Spec2Model ----
(***************************************************************************)
(* Ledger (Wallet / Transaction), accounts (User) and the MLJob lifecycle  *)
(* of maxeffe/contract_checker.                                            *)
(*                                                                         *)
(* The repository holds the program twice: the package src/app/models/*.py *)
(* and the single-file src/task_1.py.  The two differ in the signatures of *)
(* Wallet.credit / Wallet.debit (task_1.py accepts the `ref` argument that *)
(* User.credit / User.debit pass on, the package does not).  The variable  *)
(* `variant` fixes which of the two is running.                            *)
(*                                                                         *)
(* Amounts are Python ints; Decimal(str(n)) of an int n is the exact       *)
(* Decimal of value n, and Decimal + and - are exact at these magnitudes.  *)
(* Transaction.trans_time and the descriptive fields of User, Document and *)
(* Model (names, text, language) are never read by the modelled operations *)
(* and are left out of the records.                                        *)
(***************************************************************************)
EXTENDS Integers, Sequences, FiniteSets, TLC

VARIABLES variant, wallets, jobs, now, last, pre, threads, made

vars == <<variant, wallets, jobs, now, last, pre, threads, made>>

----------------------------------------------------------------------------
(* Bounds *)

MaxTx == 2
MaxJobs == 1
MaxTime == 3
MaxConcTx == 3
MaxEmailLen == 5

Variants == {"app", "task_1"}
Accounts == {1, 2}
Amounts == {0 - 1, 0, 1, 2}
Pages == {1, 2}
Prices == {1, 2}
Messages == {"boom"}
ConcAmounts == {1, 2}
(* Characters of an email: a word character, the two punctuation marks    *)
(* of the pattern's classes, the at sign and a character of no class.      *)
EmailChars == {"a", ".", "-", "@", "\n"}
RECURSIVE SeqsUpTo(_, _)
SeqsUpTo(S, n) ==
    IF n = 0 THEN {<<>>}
    ELSE LET shorter == SeqsUpTo(S, n - 1)
         IN shorter \cup {Append(q, c) : q \in shorter, c \in S}
Emails == SeqsUpTo(EmailChars, MaxEmailLen)
Passwords == {"", "1234567", "12345678"}
NewIds == {3}
(* finish_ok arguments <<summary, clauses, score>>; scores in tenths. *)
FinishOkInputs ==
    {<<"s1", <<[clause_text |-> "c1", risk_level |-> "HIGH"]>>, 7>>}

----------------------------------------------------------------------------
(* Enumerations (src/app/models/other.py) *)

TxType == [CREDIT |-> "CREDIT", DEBIT |-> "DEBIT"]

JobStatus == [QUEUED |-> "QUEUED", RUNNING |-> "RUNNING",
              DONE |-> "DONE", ERROR |-> "ERROR"]

SummaryDepth == [BRIEF |-> "BRIEF", BULLET |-> "BULLET",
                 DETAILED |-> "DETAILED"]

(* Optional[T]: None is the empty sequence, a value v is <<v>>. *)
None == <<>>
Some(v) == <<v>>

(* Outcome of a call: normal return or the exception that left it. *)
OK == "ok"
ValueError == "ValueError"
TypeError == "TypeError"

----------------------------------------------------------------------------
(* Wallet *)

(* Decimal(str(amount)) for an int amount. *)
ToDecimal(amount) == amount

(* Wallet(user_id=...) with the dataclass defaults. *)
Wallet(user_id) ==
    [user_id |-> user_id, balance |-> ToDecimal(0), transactions |-> <<>>]

Transaction(id, user_id, tx_type, amount) ==
    [id |-> id, user_id |-> user_id, tx_type |-> tx_type, amount |-> amount]

(* add_tx with the DEBIT branch dropped: the entry is appended but the     *)
(* stored balance is not lowered.                                          *)
add_tx_no_debit(w, tx) ==
    [w EXCEPT !.transactions = Append(@, tx),
              !.balance = IF tx.tx_type = TxType.CREDIT THEN @ + tx.amount
                          ELSE @]

(* add_tx inserting the entry at the front of the history.                 *)
add_tx_prepend(w, tx) ==
    [w EXCEPT !.transactions = <<tx>> \o @,
              !.balance = IF tx.tx_type = TxType.CREDIT THEN @ + tx.amount
                          ELSE IF tx.tx_type = TxType.DEBIT THEN @ - tx.amount
                          ELSE @]

add_tx(w, tx) ==
    [w EXCEPT !.transactions = Append(@, tx),
              !.balance = IF tx.tx_type = TxType.CREDIT THEN @ + tx.amount
                          ELSE IF tx.tx_type = TxType.DEBIT THEN @ - tx.amount
                          ELSE @]

(* Wallet.credit with the id placeholder of MLJob.enqueue (id=1).          *)
Wallet_credit_fixed_id(w, amount) ==
    LET amt == ToDecimal(amount)
        tx == Transaction(1, w.user_id, TxType.CREDIT, amt)
    IN [wallet |-> add_tx(w, tx), result |-> OK]

Wallet_credit(w, amount) ==
    LET amt == ToDecimal(amount)
        tx == Transaction(Len(w.transactions) + 1, w.user_id,
                          TxType.CREDIT, amt)
    IN [wallet |-> add_tx(w, tx), result |-> OK]

(* Wallet.debit refusing to spend the whole balance (<= for <).            *)
Wallet_debit_strict(w, amount) ==
    LET amt == ToDecimal(amount)
        tx == Transaction(Len(w.transactions) + 1, w.user_id,
                          TxType.DEBIT, amt)
    IN IF w.balance <= amt
       THEN [wallet |-> w, result |-> ValueError]
       ELSE [wallet |-> add_tx(w, tx), result |-> OK]

(* Wallet.debit with the balance check placed after _add_tx: the entry is *)
(* recorded and then the error is raised.                                  *)
Wallet_debit_late_check(w, amount) ==
    LET amt == ToDecimal(amount)
        tx == Transaction(Len(w.transactions) + 1, w.user_id,
                          TxType.DEBIT, amt)
    IN IF w.balance < amt
       THEN [wallet |-> add_tx(w, tx), result |-> ValueError]
       ELSE [wallet |-> add_tx(w, tx), result |-> OK]

Wallet_debit(w, amount) ==
    LET amt == ToDecimal(amount)
        tx == Transaction(Len(w.transactions) + 1, w.user_id,
                          TxType.DEBIT, amt)
    IN IF w.balance < amt
       THEN [wallet |-> w, result |-> ValueError]
       ELSE [wallet |-> add_tx(w, tx), result |-> OK]

----------------------------------------------------------------------------
(* User *)

(* One Wallet object shared by every account instead of a fresh Wallet    *)
(* per __post_init__.                                                      *)
WalletOf_shared(a) == CHOOSE w \in Accounts : \A b \in Accounts : w <= b

(* re.fullmatch(r"^[\w\.-]+@[\w\.-]+\.\w+$", email): a non-empty run of    *)
(* [\w.-], an at sign, a non-empty run of [\w.-], a dot, and a non-empty   *)
(* run of \w up to the end of the string.                                  *)
WordChars == {"a"}
ClassChars == WordChars \cup {".", "-"}

AllIn(e, S) == \A i \in 1..Len(e) : e[i] \in S

EmailMatches(e) ==
    \E i \in 1..Len(e), k \in 1..Len(e) :
        /\ e[i] = "@"
        /\ e[k] = "."
        /\ i >= 2
        /\ AllIn(SubSeq(e, 1, i - 1), ClassChars)
        /\ k >= i + 2
        /\ AllIn(SubSeq(e, i + 1, k - 1), ClassChars)
        /\ k < Len(e)
        /\ AllIn(SubSeq(e, k + 1, Len(e)), WordChars)

MinPasswordLen == 8

(* User(id, username, email, password, wallet=supplied): the dataclass     *)
(* __init__ followed by __post_init__.  Returns the outcome, the users     *)
(* that exist afterwards (none or one) and the number of Wallet objects    *)
(* constructed by the call.  This variant builds the wallet as a field     *)
(* default, before __post_init__ validates.                                *)
User_init_wallet_first(id, email, password, supplied) ==
    LET w == IF supplied = None THEN Wallet(id) ELSE supplied[1]
        built == IF supplied = None THEN 1 ELSE 0
    IN IF ~EmailMatches(email)
       THEN [result |-> ValueError, users |-> <<>>, wallets_built |-> built]
       ELSE IF Len(password) < MinPasswordLen
       THEN [result |-> ValueError, users |-> <<>>, wallets_built |-> built]
       ELSE [result |-> OK,
             users |-> <<[id |-> id, email |-> email, password |-> password,
                          role |-> "USER", wallet |-> w]>>,
             wallets_built |-> built]

(* User(id, username, email, password, wallet=supplied) as the code has it *)
(* : _validate_email, _validate_password, then the wallet.                 *)
User_init(id, email, password, supplied) ==
    IF ~EmailMatches(email)
    THEN [result |-> ValueError, users |-> <<>>, wallets_built |-> 0]
    ELSE IF Len(password) < MinPasswordLen
    THEN [result |-> ValueError, users |-> <<>>, wallets_built |-> 0]
    ELSE IF supplied = None
    THEN [result |-> OK,
          users |-> <<[id |-> id, email |-> email, password |-> password,
                       role |-> "USER", wallet |-> Wallet(id)]>>,
          wallets_built |-> 1]
    ELSE [result |-> OK,
          users |-> <<[id |-> id, email |-> email, password |-> password,
                       role |-> "USER", wallet |-> supplied[1]]>>,
          wallets_built |-> 0]

(* Every account is built without a supplied wallet, so __post_init__      *)
(* gives it a Wallet object of its own; wallet objects are named by the    *)
(* id of the account they were built for.                                  *)
WalletOf(a) == a

(* The accounts of the demo: user 1 is a USER, user 2 an Admin.            *)
Role == [a \in Accounts |-> IF a = 2 THEN "ADMIN" ELSE "USER"]

(* self.wallet.credit(amount, ref): the package's Wallet.credit takes no   *)
(* ref, so the call raises TypeError before the body runs.                 *)
User_credit(v, w, amount) ==
    IF v = "app" THEN [wallet |-> w, result |-> TypeError]
    ELSE Wallet_credit(w, amount)

User_debit(v, w, amount) ==
    IF v = "app" THEN [wallet |-> w, result |-> TypeError]
    ELSE Wallet_debit(w, amount)

(* Admin.credit_user(other, amount, note): other.credit(amount, note).     *)
Admin_credit_user(v, w_other, amount) == User_credit(v, w_other, amount)

----------------------------------------------------------------------------
(* MLJob *)

MLJob(id, document, model, depth, used_credits) ==
    [id |-> id, document |-> document, model |-> model,
     status |-> JobStatus.QUEUED, summary_depth |-> depth,
     used_credits |-> used_credits, summary_text |-> None,
     risk_score |-> None, risk_clauses |-> <<>>,
     started_at |-> None, finished_at |-> None]

MLJob_start(job, t) ==
    [job EXCEPT !.status = JobStatus.RUNNING, !.started_at = Some(t)]

MLJob_finish_ok(job, summary, clauses, score, t) ==
    [job EXCEPT !.status = JobStatus.DONE,
                !.summary_text = Some(summary),
                !.risk_clauses = clauses,
                !.risk_score = Some(score),
                !.finished_at = Some(t)]

(* finish_error that puts the job back in the queue for a retry.           *)
MLJob_finish_error_requeue(job, msg, t) ==
    [job EXCEPT !.status = JobStatus.QUEUED,
                !.summary_text = Some("Error: " \o msg),
                !.finished_at = Some(t)]

MLJob_finish_error(job, msg, t) ==
    [job EXCEPT !.status = JobStatus.ERROR,
                !.summary_text = Some("Error: " \o msg),
                !.finished_at = Some(t)]

(* enqueue that builds the job first and swallows a failed debit: a job   *)
(* is returned although nothing was charged.                               *)
MLJob_enqueue_swallow(v, w, document, model, depth) ==
    LET cost == ToDecimal(document.pages * model.price_per_page)
        d == User_debit(v, w, cost)
    IN [wallet |-> d.wallet,
        returned |-> <<MLJob(1, document, model, depth, cost)>>,
        result |-> OK]

(* enqueue recording the page count as the charge (1 credit = 1 page)     *)
(* while debiting pages * price_per_page.                                  *)
MLJob_enqueue_page_credits(v, w, document, model, depth) ==
    LET cost == ToDecimal(document.pages * model.price_per_page)
        d == User_debit(v, w, cost)
    IN IF d.result # OK
       THEN [wallet |-> w, returned |-> <<>>, result |-> d.result]
       ELSE [wallet |-> d.wallet,
             returned |-> <<MLJob(1, document, model, depth,
                                  ToDecimal(document.pages))>>,
             result |-> OK]

(* Returns the wallet after the call, the jobs returned (none or one) and  *)
(* the outcome.                                                            *)
MLJob_enqueue(v, w, document, model, depth) ==
    LET cost == ToDecimal(document.pages * model.price_per_page)
        d == User_debit(v, w, cost)
    IN IF d.result # OK
       THEN [wallet |-> w, returned |-> <<>>, result |-> d.result]
       ELSE [wallet |-> d.wallet,
             returned |-> <<MLJob(1, document, model, depth, cost)>>,
             result |-> OK]

----------------------------------------------------------------------------
(* State machine *)

RECURSIVE SumLen(_, _)
SumLen(ws, S) ==
    IF S = {} THEN 0
    ELSE LET a == CHOOSE x \in S : TRUE
         IN Len(ws[a].transactions) + SumLen(ws, S \ {a})

TotalTx(ws) == SumLen(ws, Accounts)

(* A thread's frame inside a Wallet call: where it stands, the call's      *)
(* arguments, the transaction it built and the balance it read.            *)
Threads == {1, 2}
Idle == [pc |-> "idle", op |-> "none", amount |-> 0, tx |-> None,
         bal |-> 0, result |-> OK]

(* The User(...) constructor call under observation: its arguments, where *)
(* it stands, and what it left behind.                                     *)
NoConstruction ==
    [pc |-> "none", id |-> 0, email |-> <<>>, password |-> "",
     supplied |-> None, result |-> OK, users |-> <<>>, wallets_built |-> 0]

NoCall == [op |-> "none", admin |-> 0, acct |-> 0, job |-> 0, amount |-> 0,
           pages |-> 0, price |-> 0, text |-> "", result |-> OK]

Init ==
    /\ variant \in Variants
    /\ wallets = [a \in Accounts |-> Wallet(a)]
    /\ jobs = <<>>
    /\ now = 1
    /\ last = NoCall
    /\ pre = [wallets |-> wallets, jobs |-> jobs]
    /\ threads = [t \in Threads |-> Idle]
    /\ made = NoConstruction

Snapshot == pre' = [wallets |-> wallets, jobs |-> jobs]

WalletCall(op, a, amount, r) ==
    /\ TotalTx([wallets EXCEPT ![WalletOf(a)] = r.wallet]) <= MaxTx
    /\ wallets' = [wallets EXCEPT ![WalletOf(a)] = r.wallet]
    /\ last' = [NoCall EXCEPT !.op = op, !.acct = a, !.amount = amount,
                              !.result = r.result]
    /\ Snapshot
    /\ UNCHANGED <<variant, jobs, now, threads, made>>

WalletCredit(a, amount) ==
    WalletCall("Wallet.credit", a, amount,
               Wallet_credit(wallets[WalletOf(a)], amount))

WalletDebit(a, amount) ==
    WalletCall("Wallet.debit", a, amount,
               Wallet_debit(wallets[WalletOf(a)], amount))

UserCredit(a, amount) ==
    WalletCall("User.credit", a, amount,
               User_credit(variant, wallets[WalletOf(a)], amount))

UserDebit(a, amount) ==
    WalletCall("User.debit", a, amount,
               User_debit(variant, wallets[WalletOf(a)], amount))

(* admin.credit_user(other, amount, note) by an account of role ADMIN.     *)
AdminCreditUser(admin, other, amount) ==
    /\ Role[admin] = "ADMIN"
    /\ LET r == Admin_credit_user(variant, wallets[WalletOf(other)], amount)
       IN /\ TotalTx([wallets EXCEPT ![WalletOf(other)] = r.wallet]) <= MaxTx
          /\ wallets' = [wallets EXCEPT ![WalletOf(other)] = r.wallet]
          /\ last' = [NoCall EXCEPT !.op = "Admin.credit_user",
                                    !.admin = admin, !.acct = other,
                                    !.amount = amount, !.result = r.result]
    /\ Snapshot
    /\ UNCHANGED <<variant, jobs, now, threads, made>>

Enqueue(a, pages, price) ==
    LET document == [user_id |-> a, pages |-> pages]
        model == [price_per_page |-> price]
        r == MLJob_enqueue(variant, wallets[WalletOf(a)], document, model,
                           SummaryDepth.BULLET)
    IN /\ TotalTx([wallets EXCEPT ![WalletOf(a)] = r.wallet]) <= MaxTx
       /\ Len(jobs) + Len(r.returned) <= MaxJobs
       /\ wallets' = [wallets EXCEPT ![WalletOf(a)] = r.wallet]
       /\ jobs' = jobs \o r.returned
       /\ last' = [NoCall EXCEPT !.op = "MLJob.enqueue", !.acct = a,
                                 !.pages = pages, !.price = price,
                                 !.result = r.result]
       /\ Snapshot
       /\ UNCHANGED <<variant, now, threads, made>>

JobCall(op, j, text, newjob) ==
    /\ now <= MaxTime
    /\ jobs' = [jobs EXCEPT ![j] = newjob]
    /\ now' = now + 1
    /\ last' = [NoCall EXCEPT !.op = op, !.job = j, !.text = text]
    /\ Snapshot
    /\ UNCHANGED <<variant, wallets, threads, made>>

Start(j) ==
    JobCall("MLJob.start", j, "", MLJob_start(jobs[j], now))

FinishOk(j, summary, clauses, score) ==
    JobCall("MLJob.finish_ok", j, summary,
            MLJob_finish_ok(jobs[j], summary, clauses, score, now))

(* finish_error that refunds the job's charge to the document's owner.     *)
FinishError_refund(j, msg) ==
    /\ now <= MaxTime
    /\ jobs' = [jobs EXCEPT ![j] = MLJob_finish_error(jobs[j], msg, now)]
    /\ wallets' = [wallets EXCEPT ![WalletOf(jobs[j].document.user_id)] =
                       Wallet_credit(@, jobs[j].used_credits).wallet]
    /\ now' = now + 1
    /\ last' = [NoCall EXCEPT !.op = "MLJob.finish_error", !.job = j,
                              !.text = msg]
    /\ Snapshot
    /\ UNCHANGED <<variant, threads, made>>

FinishError(j, msg) ==
    JobCall("MLJob.finish_error", j, msg,
            MLJob_finish_error(jobs[j], msg, now))

Next ==
    \/ \E a \in Accounts, amount \in Amounts : WalletCredit(a, amount)
    \/ \E a \in Accounts, amount \in Amounts : WalletDebit(a, amount)
    \/ \E a \in Accounts, amount \in Amounts : UserCredit(a, amount)
    \/ \E a \in Accounts, amount \in Amounts : UserDebit(a, amount)
    \/ \E ad \in Accounts, a \in Accounts, amount \in Amounts :
          AdminCreditUser(ad, a, amount)
    \/ \E a \in Accounts, p \in Pages, q \in Prices : Enqueue(a, p, q)
    \/ \E j \in 1..Len(jobs) : Start(j)
    \/ \E j \in 1..Len(jobs), i \in FinishOkInputs :
          FinishOk(j, i[1], i[2], i[3])
    \/ \E j \in 1..Len(jobs), m \in Messages : FinishError(j, m)

Spec == Init /\ [][Next]_vars

----------------------------------------------------------------------------
(* Concurrent calls on one wallet.  The code takes no lock, so threads     *)
(* calling Wallet.credit / Wallet.debit on the same Wallet interleave      *)
(* between the statements of the methods: the balance check, the building  *)
(* of the Transaction (which reads len(transactions)), the append, and the *)
(* read and the write of `self._balance += / -= tx.amount`.  Amounts are   *)
(* strictly positive here.                                                 *)

ConcWallet == WalletOf(1)

Active == {t \in Threads : threads[t].pc # "idle"}

OtherVars == <<variant, jobs, now, last, pre, made>>

(* A thread enters wallet.credit(amount) or wallet.debit(amount).          *)
TCall(t, op, amount) ==
    /\ threads[t].pc = "idle"
    /\ Len(wallets[ConcWallet].transactions) + Cardinality(Active)
           < MaxConcTx
    /\ threads' = [threads EXCEPT ![t] =
                       [Idle EXCEPT !.pc = IF op = "debit" THEN "check"
                                           ELSE "build",
                                    !.op = op,
                                    !.amount = ToDecimal(amount)]]
    /\ UNCHANGED <<wallets, OtherVars>>

(* debit: if self._balance < amount: raise ValueError                      *)
TCheck(t) ==
    /\ threads[t].pc = "check"
    /\ threads' = [threads EXCEPT ![t] =
                       IF wallets[ConcWallet].balance < @.amount
                       THEN [Idle EXCEPT !.result = ValueError]
                       ELSE [@ EXCEPT !.pc = "build"]]
    /\ UNCHANGED <<wallets, OtherVars>>

(* tx = Transaction(id=len(self.transactions) + 1, ...)                    *)
TBuild(t) ==
    /\ threads[t].pc = "build"
    /\ LET f == threads[t]
           tx == Transaction(Len(wallets[ConcWallet].transactions) + 1,
                             wallets[ConcWallet].user_id,
                             IF f.op = "debit" THEN TxType.DEBIT
                             ELSE TxType.CREDIT,
                             f.amount)
       IN threads' = [threads EXCEPT ![t] =
                         [f EXCEPT !.pc = "append", !.tx = Some(tx)]]
    /\ UNCHANGED <<wallets, OtherVars>>

(* _add_tx: self.transactions.append(tx)                                   *)
TAppend(t) ==
    /\ threads[t].pc = "append"
    /\ wallets' = [wallets EXCEPT ![ConcWallet].transactions =
                       Append(@, threads[t].tx[1])]
    /\ threads' = [threads EXCEPT ![t].pc = "read"]
    /\ UNCHANGED OtherVars

(* _add_tx: the load of self._balance in += / -=                           *)
TRead(t) ==
    /\ threads[t].pc = "read"
    /\ threads' = [threads EXCEPT ![t] =
                       [@ EXCEPT !.pc = "write",
                                 !.bal = wallets[ConcWallet].balance]]
    /\ UNCHANGED <<wallets, OtherVars>>

(* _add_tx: the store of self._balance in += / -=, then return tx          *)
TWrite(t) ==
    /\ threads[t].pc = "write"
    /\ wallets' = [wallets EXCEPT ![ConcWallet].balance =
                       IF threads[t].tx[1].tx_type = TxType.CREDIT
                       THEN threads[t].bal + threads[t].tx[1].amount
                       ELSE IF threads[t].tx[1].tx_type = TxType.DEBIT
                       THEN threads[t].bal - threads[t].tx[1].amount
                       ELSE @]
    /\ threads' = [threads EXCEPT ![t] = Idle]
    /\ UNCHANGED OtherVars

NextConc ==
    \/ \E t \in Threads, op \in {"credit", "debit"}, amount \in ConcAmounts :
          TCall(t, op, amount)
    \/ \E t \in Threads : TCheck(t)
    \/ \E t \in Threads : TBuild(t)
    \/ \E t \in Threads : TAppend(t)
    \/ \E t \in Threads : TRead(t)
    \/ \E t \in Threads : TWrite(t)

SpecConc == Init /\ [][NextConc]_vars

----------------------------------------------------------------------------
(* Account construction: one User(...) call on arguments drawn from the    *)
(* input sets.                                                             *)

InitCons ==
    /\ variant \in Variants
    /\ wallets = [a \in Accounts |-> Wallet(a)]
    /\ jobs = <<>>
    /\ now = 1
    /\ last = NoCall
    /\ pre = [wallets |-> wallets, jobs |-> jobs]
    /\ threads = [t \in Threads |-> Idle]
    /\ \E id \in NewIds, email \in Emails, password \in Passwords,
          supplied \in {None, Some(Wallet(1))} :
           made = [NoConstruction EXCEPT !.pc = "call", !.id = id,
                                         !.email = email,
                                         !.password = password,
                                         !.supplied = supplied]

Construct ==
    /\ made.pc = "call"
    /\ LET r == User_init(made.id, made.email, made.password, made.supplied)
       IN made' = [made EXCEPT !.pc = "returned", !.result = r.result,
                               !.users = r.users,
                               !.wallets_built = r.wallets_built]
    /\ UNCHANGED <<variant, wallets, jobs, now, last, pre, threads>>

NextCons == Construct

SpecCons == InitCons /\ [][NextCons]_vars

----------------------------------------------------------------------------
(* Properties.  `pre` is the state at entry of the last call and `last`    *)
(* the call with its arguments and outcome.                                *)

WalletOps == {"Wallet.credit", "Wallet.debit"}
FinishOps == {"MLJob.finish_ok", "MLJob.finish_error"}
JobOps == {"MLJob.start"} \cup FinishOps
Terminal == {JobStatus.DONE, JobStatus.ERROR}

PreWallet == pre.wallets[WalletOf(last.acct)]
PostWallet == wallets[WalletOf(last.acct)]
PreJob == pre.jobs[last.job]
PostJob == jobs[last.job]

RECURSIVE SumOf(_, _)
SumOf(txs, kind) ==
    IF txs = <<>> THEN 0
    ELSE (IF Head(txs).tx_type = kind THEN Head(txs).amount ELSE 0)
         + SumOf(Tail(txs), kind)

HasKind(txs, kind) == \E i \in 1..Len(txs) : txs[i].tx_type = kind

(* C1: in every state reached from empty wallets by credit and debit calls *)
(* with any amounts, every wallet's balance is >= 0.                       *)
C1_BalanceNeverNegative ==
    \A a \in Accounts : wallets[a].balance >= 0

(* C2: the stored balance of every wallet equals the sum of the amounts of *)
(* its CREDIT transactions minus the sum of the amounts of its DEBIT       *)
(* transactions.                                                           *)
C2_BalanceIsSignedSum ==
    \A a \in Accounts :
        wallets[a].balance = SumOf(wallets[a].transactions, TxType.CREDIT)
                             - SumOf(wallets[a].transactions, TxType.DEBIT)

(* A wallet holding both a CREDIT and a DEBIT entry with a balance left.   *)
C2_Witness ==
    \E a \in Accounts :
        /\ HasKind(wallets[a].transactions, TxType.CREDIT)
        /\ HasKind(wallets[a].transactions, TxType.DEBIT)
        /\ wallets[a].balance # 0

(* C3: Wallet.debit(amount) called with balance < amount fails with the    *)
(* insufficient-funds error and leaves every wallet as it was: same        *)
(* balance, same transaction sequence.                                     *)
C3_FailedDebitLeavesWallet ==
    (last.op = "Wallet.debit" /\ PreWallet.balance < last.amount)
        => (last.result = ValueError /\ wallets = pre.wallets)

(* A debit beyond the balance was attempted on a wallet with a history.    *)
C3_Witness ==
    /\ last.op = "Wallet.debit"
    /\ PreWallet.balance < last.amount
    /\ PreWallet.transactions # <<>>
    /\ PreWallet.balance > 0

(* C4: a call to enqueue either returns one new job and appends exactly    *)
(* one new DEBIT transaction to the account's wallet, or fails, returns no *)
(* job and leaves balance and transactions unchanged.                      *)
C4_EnqueueAtomic ==
    last.op = "MLJob.enqueue" =>
        \/ /\ last.result = OK
           /\ Len(jobs) = Len(pre.jobs) + 1
           /\ SubSeq(jobs, 1, Len(pre.jobs)) = pre.jobs
           /\ Len(PostWallet.transactions) = Len(PreWallet.transactions) + 1
           /\ SubSeq(PostWallet.transactions, 1, Len(PreWallet.transactions))
                  = PreWallet.transactions
           /\ PostWallet.transactions[Len(PostWallet.transactions)].tx_type
                  = TxType.DEBIT
        \/ /\ last.result # OK
           /\ jobs = pre.jobs
           /\ wallets = pre.wallets

(* enqueue succeeded: a job was returned and the wallet was charged.       *)
C4_Witness ==
    /\ last.op = "MLJob.enqueue"
    /\ last.result = OK
    /\ Len(jobs) = Len(pre.jobs) + 1
    /\ PostWallet.balance < PreWallet.balance

(* C5: when the account's balance is >= pages * price_per_page, enqueue    *)
(* succeeds and returns a job with status QUEUED, used_credits equal to    *)
(* pages * price_per_page, started_at and finished_at absent, and the      *)
(* balance is lower by exactly pages * price_per_page.                     *)
C5_EnqueueSucceedsWhenFunded ==
    (last.op = "MLJob.enqueue"
     /\ PreWallet.balance >= last.pages * last.price)
        => /\ last.result = OK
           /\ Len(jobs) = Len(pre.jobs) + 1
           /\ jobs[Len(jobs)].status = JobStatus.QUEUED
           /\ jobs[Len(jobs)].used_credits = last.pages * last.price
           /\ jobs[Len(jobs)].started_at = None
           /\ jobs[Len(jobs)].finished_at = None
           /\ PostWallet.balance
                  = PreWallet.balance - last.pages * last.price

(* C6: start called on a RUNNING, DONE or ERROR job fails and leaves the   *)
(* job unchanged; called on a QUEUED job it sets status RUNNING and        *)
(* started_at.                                                             *)
C6_StartOnlyFromQueued ==
    last.op = "MLJob.start" =>
        IF PreJob.status = JobStatus.QUEUED
        THEN /\ last.result = OK
             /\ PostJob.status = JobStatus.RUNNING
             /\ PostJob.started_at # None
        ELSE /\ last.result # OK
             /\ PostJob.status = PreJob.status
             /\ PostJob.started_at = PreJob.started_at

(* C7: once a job is DONE or ERROR, every further start, finish_ok or      *)
(* finish_error fails and status, summary_text, risk_clauses, risk_score   *)
(* and finished_at keep their values.                                      *)
C7_TerminalIsFinal ==
    (last.op \in JobOps /\ PreJob.status \in Terminal)
        => /\ last.result # OK
           /\ PostJob.status = PreJob.status
           /\ PostJob.summary_text = PreJob.summary_text
           /\ PostJob.risk_clauses = PreJob.risk_clauses
           /\ PostJob.risk_score = PreJob.risk_score
           /\ PostJob.finished_at = PreJob.finished_at

(* C8: finish_ok and finish_error called on a QUEUED job fail and leave    *)
(* the job unchanged, so every DONE or ERROR job has started_at set.       *)
C8_FinishOnlyAfterRun ==
    /\ (last.op \in FinishOps /\ PreJob.status = JobStatus.QUEUED)
           => (last.result # OK /\ PostJob = PreJob)
    /\ \A j \in 1..Len(jobs) :
           jobs[j].status \in Terminal => jobs[j].started_at # None

(* C9: Wallet.credit and Wallet.debit with amount <= 0 fail and leave      *)
(* balance and transactions unchanged, so every recorded transaction has a *)
(* strictly positive amount.                                               *)
C9_NonPositiveAmountRejected ==
    /\ (last.op \in WalletOps /\ last.amount <= 0)
           => (last.result # OK /\ wallets = pre.wallets)
    /\ \A a \in Accounts : \A i \in 1..Len(wallets[a].transactions) :
           wallets[a].transactions[i].amount > 0

(* C10: User.credit(amount) with amount > 0 succeeds, appends exactly one  *)
(* CREDIT transaction of that amount and raises the balance by amount;     *)
(* User.debit(amount) with 0 < amount <= balance succeeds, appends exactly *)
(* one DEBIT transaction and lowers the balance by amount.                 *)
C10_UserDelegatesToWallet ==
    /\ (last.op = "User.credit" /\ last.amount > 0)
           => /\ last.result = OK
              /\ PostWallet.transactions
                     = Append(PreWallet.transactions,
                              Transaction(Len(PreWallet.transactions) + 1,
                                          last.acct, TxType.CREDIT,
                                          last.amount))
              /\ PostWallet.balance = PreWallet.balance + last.amount
    /\ (last.op = "User.debit" /\ last.amount > 0
        /\ PreWallet.balance >= last.amount)
           => /\ last.result = OK
              /\ PostWallet.transactions
                     = Append(PreWallet.transactions,
                              Transaction(Len(PreWallet.transactions) + 1,
                                          last.acct, TxType.DEBIT,
                                          last.amount))
              /\ PostWallet.balance = PreWallet.balance - last.amount

LedgerOps == WalletOps \cup {"User.credit", "User.debit",
                             "Admin.credit_user", "MLJob.enqueue"}

IsPrefix(p, q) == Len(p) <= Len(q) /\ SubSeq(q, 1, Len(p)) = p

(* C11: Wallet.credit(amount) with amount > 0 never fails, appends exactly *)
(* one CREDIT transaction and raises the balance by amount; Wallet.debit   *)
(* with 0 < amount <= balance (the whole balance included) succeeds,       *)
(* appends exactly one DEBIT transaction and lowers the balance by amount. *)
C11_WalletCreditDebitEffect ==
    /\ (last.op = "Wallet.credit" /\ last.amount > 0)
           => /\ last.result = OK
              /\ PostWallet.transactions
                     = Append(PreWallet.transactions,
                              Transaction(Len(PreWallet.transactions) + 1,
                                          PreWallet.user_id, TxType.CREDIT,
                                          last.amount))
              /\ PostWallet.balance = PreWallet.balance + last.amount
    /\ (last.op = "Wallet.debit" /\ last.amount > 0
        /\ last.amount <= PreWallet.balance)
           => /\ last.result = OK
              /\ PostWallet.transactions
                     = Append(PreWallet.transactions,
                              Transaction(Len(PreWallet.transactions) + 1,
                                          PreWallet.user_id, TxType.DEBIT,
                                          last.amount))
              /\ PostWallet.balance = PreWallet.balance - last.amount

(* A debit of exactly the whole positive balance was made.                 *)
C11_Witness ==
    /\ last.op = "Wallet.debit"
    /\ last.amount > 0
    /\ last.amount = PreWallet.balance
    /\ PostWallet.balance = 0

(* C12: start, finish_ok and finish_error leave the balance and the        *)
(* transaction sequence of every wallet unchanged, in particular           *)
(* finish_error on a charged job refunds nothing.                          *)
C12_LifecycleLeavesLedger ==
    last.op \in JobOps => wallets = pre.wallets

(* finish_error ran on a job that had been charged.                        *)
C12_Witness ==
    /\ last.op = "MLJob.finish_error"
    /\ PreJob.used_credits > 0
    /\ PostJob.status = JobStatus.ERROR

(* C13: within one wallet transaction ids are strictly increasing in       *)
(* sequence order (hence unique), and a failed call consumes no id: the    *)
(* id the next transaction gets is the same as before the call.            *)
C13_TxIdsIncreasing ==
    /\ \A a \in Accounts :
           \A i \in 1..Len(wallets[a].transactions) :
               \A j \in 1..Len(wallets[a].transactions) :
                   i < j => wallets[a].transactions[i].id
                                < wallets[a].transactions[j].id
    /\ (last.op \in LedgerOps /\ last.result # OK)
           => Len(PostWallet.transactions) = Len(PreWallet.transactions)

(* A wallet holds two entries, the second recorded by the last call.       *)
C13_Witness ==
    /\ last.op \in LedgerOps
    /\ last.result = OK
    /\ Len(PostWallet.transactions) >= 2

(* C15: Admin.credit_user(other, amount, note) credits the target          *)
(* account's wallet by amount (one CREDIT entry, balance raised by amount) *)
(* and, when the target is another account, leaves the admin's wallet and  *)
(* every third account's wallet unchanged.                                 *)
C15_AdminCreditsTarget ==
    last.op = "Admin.credit_user" =>
        /\ last.result = OK
        /\ PostWallet.transactions
               = Append(PreWallet.transactions,
                        Transaction(Len(PreWallet.transactions) + 1,
                                    PreWallet.user_id, TxType.CREDIT,
                                    last.amount))
        /\ PostWallet.balance = PreWallet.balance + last.amount
        /\ last.acct # last.admin =>
               \A b \in Accounts \ {last.acct} :
                   wallets[WalletOf(b)] = pre.wallets[WalletOf(b)]

RECURSIVE SumUsed(_, _)
SumUsed(js, a) ==
    IF js = <<>> THEN 0
    ELSE (IF Head(js).document.user_id = a THEN Head(js).used_credits ELSE 0)
         + SumUsed(Tail(js), a)

NumJobsOf(a) ==
    Cardinality({j \in 1..Len(jobs) : jobs[j].document.user_id = a})

NumDebitsOf(a) ==
    Cardinality({i \in 1..Len(wallets[WalletOf(a)].transactions) :
                     wallets[WalletOf(a)].transactions[i].tx_type
                         = TxType.DEBIT})

(* C16: the job returned by enqueue has used_credits equal to the amount   *)
(* of the one DEBIT transaction that enqueue recorded; start, finish_ok    *)
(* and finish_error do not change used_credits; and for an account whose   *)
(* debits all came from enqueue (as many DEBIT entries as jobs) the sum of *)
(* used_credits over its jobs equals the sum of its DEBIT amounts.         *)
C16_ChargeMatchesLedger ==
    /\ (last.op = "MLJob.enqueue" /\ last.result = OK)
           => /\ Len(PostWallet.transactions)
                     = Len(PreWallet.transactions) + 1
              /\ PostWallet.transactions[Len(PostWallet.transactions)].tx_type
                     = TxType.DEBIT
              /\ jobs[Len(jobs)].used_credits
                     = PostWallet.transactions[
                           Len(PostWallet.transactions)].amount
    /\ last.op \in JobOps => PostJob.used_credits = PreJob.used_credits
    /\ \A a \in Accounts :
           NumDebitsOf(a) = NumJobsOf(a)
               => SumUsed(jobs, a)
                      = SumOf(wallets[WalletOf(a)].transactions, TxType.DEBIT)

(* A lifecycle call ran on a charged job of an account debited only by     *)
(* enqueue.                                                                *)
C16_Witness ==
    /\ last.op \in JobOps
    /\ PostJob.used_credits > 0
    /\ NumJobsOf(PostJob.document.user_id) >= 1
    /\ NumDebitsOf(PostJob.document.user_id)
           = NumJobsOf(PostJob.document.user_id)

(* C17: after any credit or debit call the previous transaction sequence   *)
(* of every wallet is a prefix of the new one; a successful call adds      *)
(* exactly one entry at the end and a failed call adds none.               *)
C17_HistoryAppendOnly ==
    last.op \in LedgerOps =>
        /\ \A a \in Accounts :
               IsPrefix(pre.wallets[a].transactions, wallets[a].transactions)
        /\ last.result = OK
               => Len(PostWallet.transactions)
                      = Len(PreWallet.transactions) + 1
        /\ last.result # OK
               => PostWallet.transactions = PreWallet.transactions

(* A successful call on a wallet that already had a history.               *)
C17_Witness ==
    /\ last.op \in LedgerOps
    /\ last.result = OK
    /\ PreWallet.transactions # <<>>
    /\ Len(PostWallet.transactions) = Len(PreWallet.transactions) + 1

(* C19: no start, finish_ok or finish_error leaves a job QUEUED, and a job *)
(* that was not QUEUED before a call is not QUEUED after it.               *)
C19_QueuedNeverReentered ==
    /\ last.op \in JobOps => PostJob.status # JobStatus.QUEUED
    /\ \A j \in 1..Len(pre.jobs) :
           pre.jobs[j].status # JobStatus.QUEUED
               => jobs[j].status # JobStatus.QUEUED

(* A lifecycle call ran on a job that had already left QUEUED.             *)
C19_Witness ==
    /\ last.op \in JobOps
    /\ PreJob.status # JobStatus.QUEUED

(* C20: a credit, debit or enqueue on one account, successful or failed,   *)
(* leaves the balance and transactions of every other account's wallet     *)
(* unchanged.                                                              *)
C20_WalletsIndependent ==
    last.op \in LedgerOps =>
        \A b \in Accounts \ {last.acct} :
            wallets[WalletOf(b)] = pre.wallets[WalletOf(b)]

(* A successful call on one account while another account has a history.   *)
C20_Witness ==
    /\ last.op \in LedgerOps
    /\ last.result = OK
    /\ PostWallet # PreWallet
    /\ \E b \in Accounts \ {last.acct} :
           wallets[WalletOf(b)].transactions # <<>>

ConcTxs == wallets[ConcWallet].transactions

(* C14: with debits (and credits) of positive amounts running concurrently *)
(* on one wallet, their check and append interleaved in any order, the     *)
(* balance never becomes negative and the recorded debits never exceed the *)
(* recorded credits: two debits that each fit the balance but not together *)
(* cannot both succeed.                                                    *)
C14_ConcurrentDebitsNeverOverdraw ==
    /\ wallets[ConcWallet].balance >= 0
    /\ SumOf(ConcTxs, TxType.CREDIT) - SumOf(ConcTxs, TxType.DEBIT) >= 0

(* C18: once all concurrent credit and debit calls on a wallet have        *)
(* completed, the balance equals the signed sum of the recorded            *)
(* transactions and no two recorded transactions share an id.              *)
C18_ConcurrentLedgerConsistent ==
    Active = {} =>
        /\ wallets[ConcWallet].balance
               = SumOf(ConcTxs, TxType.CREDIT) - SumOf(ConcTxs, TxType.DEBIT)
        /\ \A i \in 1..Len(ConcTxs) : \A j \in 1..Len(ConcTxs) :
               i # j => ConcTxs[i].id # ConcTxs[j].id

(* C21: constructing an account with an email that does not match the     *)
(* address pattern, or with a password hash shorter than 8 characters,     *)
(* fails with no account existing afterwards and no Wallet constructed;    *)
(* with valid fields and no supplied wallet the account gets exactly one   *)
(* new empty wallet with balance 0.                                        *)
C21_InvalidAccountBuildsNothing ==
    made.pc = "returned" =>
        /\ (~EmailMatches(made.email) \/ Len(made.password) < 8)
               => /\ made.result = ValueError
                  /\ made.users = <<>>
                  /\ made.wallets_built = 0
        /\ (EmailMatches(made.email) /\ Len(made.password) >= 8
            /\ made.supplied = None)
               => /\ made.result = OK
                  /\ Len(made.users) = 1
                  /\ made.wallets_built = 1
                  /\ made.users[1].wallet
                         = [user_id |-> made.id, balance |-> 0,
                            transactions |-> <<>>]

(* A construction with a well-formed email and a too short password hash   *)
(* and no supplied wallet was refused.                                     *)
C21_Witness ==
    /\ made.pc = "returned"
    /\ EmailMatches(made.email)
    /\ Len(made.password) < 8
    /\ made.supplied = None
    /\ made.result = ValueError

====
